---- MODULE Spec2Model ----
(***************************************************************************)
(* Model of api/publish.py: the Airtable -> Meta publish webhook.          *)
(*                                                                         *)
(* One webhook invocation (handler.do_POST -> process_record ->            *)
(* publish_to_facebook -> update_airtable_status -> log_to_publishing_log) *)
(* is a process that steps from one external call to the next.  The        *)
(* content store (Airtable) and the publish platform (Meta Graph API) are  *)
(* shared state; several invocations may be in flight at once.             *)
(*                                                                         *)
(* Python values: None is <<>> and a present value v is <<v>> where a      *)
(* field is optional; a dict is a TLA+ record/function whose DOMAIN is its *)
(* key set.  The localized field names and status labels of the source are *)
(* written in ASCII (the source's label is given beside each).             *)
(***************************************************************************)
EXTENDS Integers, Sequences, FiniteSets, TLC

(***************************************************************************)
(* Bounds of the model.                                                    *)
(***************************************************************************)
\* number of webhook invocations that arrive in Spec
NumInv == 2
\* number of invocations the serverless platform runs at the same time
MaxInFlight == 2
\* longest attachment list of a record in SpecOne
MaxAttach == 2
\* number of images beyond the platform cap tried in SpecPublish
ExtraImages == 1

(***************************************************************************)
(* Program constants.                                                      *)
(***************************************************************************)
\* image_urls[:10]
MAX_IMAGES == 10
\* timedelta(minutes=15)
MIN_LEAD_MINUTES == 15
\* pytz.timezone('Asia/Taipei'): UTC+8, no daylight saving
TAIPEI_UTC_OFFSET == 8 * 3600

None == <<>>
Some(v) == <<v>>

\* Python truthiness of an optional string / optional integer
TruthyStr(o) == o # None /\ o[1] # ""
TruthyInt(o) == o # None /\ o[1] # 0

\* status labels of the field '發布狀態'
ST_NONE      == ""
\* '已發布'
ST_PUBLISHED == "published"
\* '已排程'
ST_SCHEDULED == "scheduled"
\* '發布失敗'
ST_FAILED    == "failed"
\* '沒有可用的圖片'
REASON_NO_IMAGES == "no images available"
\* log actions '發布' and '排程'
ACT_PUBLISH  == "publish"
ACT_SCHEDULE == "schedule"

(***************************************************************************)
(* Strings of the inputs, kept as token sequences so that the source's     *)
(* substring tests, split and replace are computed, not assumed.           *)
(***************************************************************************)
RECURSIVE IndexOf(_, _, _)
\* first position >= k of token t in s, 0 when absent (str.find)
IndexOf(s, t, k) ==
  IF k > Len(s) THEN 0 ELSE IF s[k] = t THEN k ELSE IndexOf(s, t, k + 1)

\* the tokens that hold a searched substring without being equal to it
TokenHas(tok, sub) ==
  tok = sub \/ (tok = "v5.airtableusercontent.com" /\ sub = "airtableusercontent.com")

\* Python: sub in url
Contains(url, sub) == \E k \in 1..Len(url) : TokenHas(url[k], sub)

\* an attachment hosted on the content store's CDN
URL_CDN   == <<"https://", "v5.airtableusercontent.com", "/", "img1">>
\* a Google Drive share link
URL_DRIVE == <<"https://", "drive.google.com", "/file/d/", "FILE1", "/", "view">>
\* any other host
URL_OTHER == <<"https://", "example.com", "/", "pic.jpg">>

\* url.split('/file/d/')[1].split('/')[0]
FileId(url) ==
  LET a == IndexOf(url, "/file/d/", 1)
      b == IndexOf(url, "/", a + 1)
      c == IndexOf(url, "/file/d/", a + 1)
      \* split('/file/d/')[1] ends at the next '/file/d/' (or the end), and
      \* its split('/')[0] at the next '/' inside it
      stop == IF b = 0 /\ c = 0 THEN Len(url) + 1
              ELSE IF b = 0 THEN c ELSE IF c = 0 THEN b
              ELSE IF b < c THEN b ELSE c
  IN SubSeq(url, a + 1, stop - 1)

\* the rewrite that keeps everything after '/file/d/' as the file id
drive_url_to_direct_WholeTail(url) ==
  IF Contains(url, "/file/d/")
  THEN <<"https://", "drive.google.com", "/uc?export=download&id=">>
         \o SubSeq(url, IndexOf(url, "/file/d/", 1) + 1, Len(url))
  ELSE url

drive_url_to_direct(url) ==
  IF Contains(url, "/file/d/")
  THEN <<"https://", "drive.google.com", "/uc?export=download&id=">> \o FileId(url)
  ELSE url

get_image_url(url) ==
  IF url = <<>> THEN url
  ELSE IF Contains(url, "airtableusercontent.com") THEN url
  ELSE IF Contains(url, "drive.google.com") THEN drive_url_to_direct(url)
  ELSE url

(***************************************************************************)
(* The scheduled datetime string: date and time fields followed by a tail  *)
(* of tokens (".000", "Z", ...).  day is the day number of the date since  *)
(* 1970-01-01.                                                             *)
(***************************************************************************)
DateTimeStr(day, hh, mm, ss, tail) ==
  [wellformed |-> TRUE, day |-> day, hh |-> hh, mm |-> mm, ss |-> ss, tail |-> tail]
\* a string that is no date at all
NotADate == [wellformed |-> FALSE, day |-> 0, hh |-> 0, mm |-> 0, ss |-> 0, tail |-> <<>>]

\* scheduled_datetime.replace('.000Z', 'Z').replace('.000', '')
StripMillis(s) ==
  [s EXCEPT !.tail = SelectSeq(s.tail, LAMBDA t : t # ".000")]

\* dt_str.endswith('Z')
EndsWithZ(s) == Len(s.tail) > 0 /\ s.tail[Len(s.tail)] = "Z"

\* a parse that stops at the seconds and ignores what follows them
Strptime_IgnoresTail(s, fmtTail) ==
  IF s.wellformed
  THEN Some(((s.day * 24 + s.hh) * 60 + s.mm) * 60 + s.ss)
  ELSE None

\* datetime.strptime(dt_str, fmt) with fmt "%Y-%m-%dT%H:%M:%S" followed by
\* fmtTail: the wall-clock reading in seconds since 1970-01-01T00:00:00, or
\* None when strptime raises ValueError
Strptime(s, fmtTail) ==
  IF s.wellformed /\ s.tail = fmtTail
  THEN Some(((s.day * 24 + s.hh) * 60 + s.mm) * 60 + s.ss)
  ELSE None

\* tzinfo=taiwan_tz in place of localize: pytz then applies the zone's first
\* offset, local mean time (UTC+8:06)
LocalizeTaipei_LMT(wall) == wall - (8 * 3600 + 6 * 60)

\* taiwan_tz.localize(dt_naive): the UTC instant of a Taipei wall-clock time
LocalizeTaipei(wall) == wall - TAIPEI_UTC_OFFSET

\* pytz.utc.localize(dt_utc).astimezone(taiwan_tz): the same instant
UtcToTaipei(wall) == wall

\* lines 221-237: the instant of dt_taiwan, None when parsing raises
ParseScheduled(scheduled_datetime) ==
  LET dt_str == StripMillis(scheduled_datetime) IN
  IF EndsWithZ(dt_str)
  THEN LET w == Strptime(dt_str, <<"Z">>) IN
       IF w = None THEN None ELSE Some(UtcToTaipei(w[1]))
  ELSE LET w == Strptime(dt_str, <<>>) IN
       IF w = None THEN None ELSE Some(LocalizeTaipei(w[1]))

\* the comparison with <= : a schedule exactly at the minimum lead is dropped
TooSoon_Inclusive(instant, now) == instant <= now + MIN_LEAD_MINUTES * 60

\* dt_taiwan < now_taipei + timedelta(minutes=15)
TooSoon(instant, now) == instant < now + MIN_LEAD_MINUTES * 60

\* lines 218-253: scheduled_timestamp for the stored datetime (an optional
\* string) read at time now
ResolveSchedule(scheduled_datetime, now) ==
  IF scheduled_datetime = None THEN None
  ELSE LET dt_taiwan == ParseScheduled(scheduled_datetime[1]) IN
       IF dt_taiwan = None THEN None
       ELSE IF TooSoon(dt_taiwan[1], now) THEN None
       ELSE Some(dt_taiwan[1])

(***************************************************************************)
(* The content store's record and the pure steps of process_record.        *)
(***************************************************************************)
\* the one record of the Contents table, and an identifier the table lacks
REC     == "rec1"
UNKNOWN == "recX"
StoreIds == {REC}

\* fields.get(key): None when the record has no such field
Get(fields, key) == IF key \in DOMAIN fields THEN Some(fields[key]) ELSE None
\* fields.get(key, default)
GetOr(fields, key, default) == IF key \in DOMAIN fields THEN fields[key] ELSE default

\* the guard reading field names the record does not have: it never skips
SkipResult_WrongFields(fields) ==
  LET current_status == GetOr(fields, "Status", "")
      post_id == Get(fields, "Post_ID")
  IN IF current_status \in {ST_PUBLISHED, ST_SCHEDULED}
     THEN Some([skipped |-> TRUE, reason |-> <<"Already", current_status>>,
                post_id |-> post_id])
     ELSE IF TruthyStr(post_id)
     THEN Some([skipped |-> TRUE, reason |-> <<"Already has FB Post ID">>,
                post_id |-> post_id])
     ELSE None

\* the guard without its second check (a stored post id)
SkipResult_StatusOnly(fields) ==
  LET current_status == GetOr(fields, "status", "")
  IN IF current_status \in {ST_PUBLISHED, ST_SCHEDULED}
     THEN Some([skipped |-> TRUE, reason |-> <<"Already", current_status>>,
                post_id |-> Get(fields, "FB_Post_ID")])
     ELSE None

\* the guard taking 'failed' for a terminal status as well
SkipResult_FailedIsTerminal(fields) ==
  LET current_status == GetOr(fields, "status", "")
      post_id == Get(fields, "FB_Post_ID")
  IN IF current_status \in {ST_PUBLISHED, ST_SCHEDULED, ST_FAILED}
     THEN Some([skipped |-> TRUE, reason |-> <<"Already", current_status>>,
                post_id |-> post_id])
     ELSE IF TruthyStr(post_id)
     THEN Some([skipped |-> TRUE, reason |-> <<"Already has FB Post ID">>,
                post_id |-> post_id])
     ELSE None

\* lines 183-198: the idempotency guard, None when the record passes
SkipResult(fields) ==
  LET current_status == GetOr(fields, "status", "")
      post_id == Get(fields, "FB_Post_ID")
  IN IF current_status \in {ST_PUBLISHED, ST_SCHEDULED}
     THEN Some([skipped |-> TRUE, reason |-> <<"Already", current_status>>,
                post_id |-> post_id])
     ELSE IF TruthyStr(post_id)
     THEN Some([skipped |-> TRUE, reason |-> <<"Already has FB Post ID">>,
                post_id |-> post_id])
     ELSE None

\* the collection without the test for a url: every attachment gives an entry
RECURSIVE CollectUrls_NoTest(_)
CollectUrls_NoTest(preview_attachments) ==
  IF preview_attachments = <<>> THEN <<>>
  ELSE <<GetOr(Head(preview_attachments), "url", <<>>)>>
         \o CollectUrls_NoTest(Tail(preview_attachments))

\* lines 205-211: the urls of the attachments that have one
RECURSIVE CollectUrls(_)
CollectUrls(preview_attachments) ==
  IF preview_attachments = <<>> THEN <<>>
  ELSE LET url == Get(Head(preview_attachments), "url") IN
       (IF url # None /\ url[1] # <<>> THEN <<url[1]>> ELSE <<>>)
         \o CollectUrls(Tail(preview_attachments))

\* str.lower() of the platform labels in use
Lower(label) ==
  CASE label = "Facebook"  -> "facebook"
    [] label = "FB"        -> "fb"
    [] label = "Instagram" -> "instagram"
    [] OTHER               -> label

\* Python: sub in label, for the labels in use
LabelHas(label, sub) == label = sub

\* the test written "'facebook' or 'fb' in ...", which is always true
WantsFacebook_Always(platform) == TRUE

\* line 258
WantsFacebook(platform) ==
  LabelHas(Lower(platform), "facebook") \/ LabelHas(Lower(platform), "fb")

(***************************************************************************)
(* Requests to the platform (publish_to_facebook) and its answers          *)
(* (meta_request).                                                         *)
(***************************************************************************)
\* lines 98-100 and 122-124: the optional scheduling parameters
WithSchedule(data, scheduled_timestamp) ==
  IF TruthyInt(scheduled_timestamp)
  THEN data @@ [published |-> "false",
                scheduled_publish_time |-> scheduled_timestamp[1]]
  ELSE data

\* lines 94-100: single image, upload with caption
SinglePhotoData(content, image_urls, scheduled_timestamp) ==
  WithSchedule([url |-> get_image_url(image_urls[1]), caption |-> content],
               scheduled_timestamp)

\* the upload without its 'published': 'false' flag
UploadData_Published(img_url) == [url |-> get_image_url(img_url)]

\* lines 108-111: one unpublished upload of the multi-image case
UploadData(img_url) == [url |-> get_image_url(img_url), published |-> "false"]

\* lines 118-124: the combined post
FeedData(content, photo_ids, scheduled_timestamp) ==
  WithSchedule([message |-> content, attached_media |-> photo_ids],
               scheduled_timestamp)

\* the loop over every image, without the cap
Capped_None(image_urls) == image_urls

\* image_urls[:10]
Capped(image_urls) ==
  SubSeq(image_urls, 1,
         IF Len(image_urls) < MAX_IMAGES THEN Len(image_urls) ELSE MAX_IMAGES)

\* what the network does to one call
WireOutcomes == {"ok", "error_message", "error_no_message", "no_id",
                 "error_not_json", "timeout"}
PLATFORM_MSG  == "Invalid OAuth access token"
TRANSPORT_MSG == "timed out"
JSON_MSG      == "Expecting value"

\* lines 53-62: the value meta_request returns for a wire outcome, None when
\* it raises (json.loads of an error body that is not JSON)
meta_request(wire, new_id) ==
  CASE wire = "ok"               -> Some([id |-> new_id])
    [] wire = "error_message"    -> Some([error |-> [message |-> PLATFORM_MSG]])
    [] wire = "error_no_message" -> Some([error |-> [code |-> "190"]])
    [] wire = "no_id"            -> Some([success |-> "true"])
    [] wire = "timeout"          -> Some([error |-> [message |-> TRANSPORT_MSG]])
    [] OTHER                     -> None

\* str(result) of a response dict
StrOf(result) == "str(result)"

\* the failure text taken from str(result) whatever the platform reported
PublishResult_IgnoresMessage(answer) ==
  IF answer = None
  THEN [success |-> FALSE, error |-> JSON_MSG]
  ELSE LET result == answer[1] IN
       IF "id" \in DOMAIN result
       THEN [success |-> TRUE, post_id |-> result.id,
             permalink |-> <<"https://www.facebook.com/", result.id>>]
       ELSE [success |-> FALSE, error |-> StrOf(result)]

\* the result taking any answer that is not an exception for a success
PublishResult_Optimistic(answer) ==
  IF answer = None
  THEN [success |-> FALSE, error |-> JSON_MSG]
  ELSE LET result == answer[1] IN
       IF "id" \in DOMAIN result
       THEN [success |-> TRUE, post_id |-> result.id,
             permalink |-> <<"https://www.facebook.com/", result.id>>]
       ELSE [success |-> TRUE, post_id |-> "",
             permalink |-> <<"https://www.facebook.com/", "">>]

\* lines 128-141: the publish result for the final call's answer
PublishResult(answer) ==
  IF answer = None
  THEN [success |-> FALSE, error |-> JSON_MSG]
  ELSE LET result == answer[1] IN
       IF "id" \in DOMAIN result
       THEN [success |-> TRUE, post_id |-> result.id,
             permalink |-> <<"https://www.facebook.com/", result.id>>]
       ELSE [success |-> FALSE,
             error |-> IF "error" \in DOMAIN result
                          /\ "message" \in DOMAIN result.error
                       THEN result.error.message
                       ELSE StrOf(result)]

(***************************************************************************)
(* Requests to the content store.                                          *)
(***************************************************************************)
\* lines 162-169: the fields of a status patch
StatusFields(status, fb_id, error) ==
  [status |-> status, confirm |-> FALSE]
    @@ (IF TruthyStr(fb_id) THEN [FB_Post_ID |-> fb_id[1]] ELSE <<>>)
    @@ (IF TruthyStr(error) THEN [reject |-> error[1]] ELSE <<>>)

\* the log entry without the outcome: neither post id nor error
LogFields_NoOutcome(rid, platform, action, post_id, error, now) ==
  [time |-> now, content |-> <<rid>>, platform |-> platform,
   action |-> action]

\* lines 146-155: the fields of a log entry
LogFields(rid, platform, action, post_id, error, now) ==
  [time |-> now, content |-> <<rid>>, platform |-> platform,
   action |-> action]
    @@ (IF TruthyStr(post_id) THEN [Post_ID |-> post_id[1]] ELSE <<>>)
    @@ (IF TruthyStr(error) THEN [error |-> error[1]] ELSE <<>>)

\* the status of a success without regard to the schedule
SuccessStatus_AlwaysPublished(scheduled_timestamp) == ST_PUBLISHED

\* lines 263-264
SuccessStatus(scheduled_timestamp) ==
  IF TruthyInt(scheduled_timestamp) THEN ST_SCHEDULED ELSE ST_PUBLISHED
SuccessAction(scheduled_timestamp) ==
  IF TruthyInt(scheduled_timestamp) THEN ACT_SCHEDULE ELSE ACT_PUBLISH

\* a PATCH applied by the store: the given fields replace the stored ones
ApplyPatch(fields, patch) == patch @@ fields

(***************************************************************************)
(* State.                                                                  *)
(***************************************************************************)
VARIABLES
  \* the content store: the Contents table and the Publishing_Log table
  store, log,
  \* the posts the platform has created
  posts,
  \* the wall clock (seconds since the epoch, UTC)
  clock,
  \* configuration read from the environment at import
  META_CONFIGURED, WEBHOOK_SECRET,
  \* the requests the webhook's clients send, and what the network may do
  \* to a call to the platform or to the store
  inbound, network,
  \* per invocation: position, the request, and the locals of do_POST,
  \* process_record and publish_to_facebook
  pc, request, record_id, fields, image_urls, scheduled_timestamp,
  photo_ids, fb_result, result,
  \* per invocation: what the network did to the final call of the dispatch
  \* (None: no final call yet)
  final_wire,
  \* per invocation: the HTTP status written (0: none yet) and the outbound
  \* calls made so far, in order
  http, calls,
  \* whether two invocations have been inside process_record at once
  overlapped

storeVars == <<store, log>>
envVars   == <<clock, META_CONFIGURED, WEBHOOK_SECRET, inbound, network>>
localVarsExceptFb == <<record_id, fields, image_urls, scheduled_timestamp,
                       photo_ids, result>>
localVars == <<record_id, fields, image_urls, scheduled_timestamp, photo_ids,
               fb_result, result, final_wire>>
vars == <<store, log, posts, clock, META_CONFIGURED, WEBHOOK_SECRET,
          inbound, network, pc, request, record_id, fields, image_urls, scheduled_timestamp,
          photo_ids, fb_result, result, final_wire, http, calls, overlapped>>

Invocations == 1..NumInv

\* the positions at which an invocation is inside process_record
Running == {"fetch", "guard", "images", "schedule", "dispatch", "publish", "single",
            "upload", "feed", "writeback", "log", "respond"}

\* the identifier the platform gives the object created by the next call
NewId(p) == "id_" \o ToString(p) \o "_" \o ToString(Len(calls[p]) + 1)

\* lines 37-42: whether a call to the store succeeds; it may fail when the
\* network has the fault
StoreFaults == {"get_fails", "patch_fails", "append_fails"}
StoreAnswers(fault) == IF fault \in network THEN BOOLEAN ELSE {TRUE}

AirtableCall(method, endpoint, data, ok) ==
  [api |-> "airtable", method |-> method, endpoint |-> endpoint,
   data |-> data, ok |-> ok]
MetaCall(endpoint, data) == [api |-> "meta", endpoint |-> endpoint, data |-> data]

(***************************************************************************)
(* handler.do_POST, lines 277-304: intake.                                 *)
(***************************************************************************)
BODY_EMPTY    == [kind |-> "empty"]
BODY_INVALID  == [kind |-> "invalid"]
BODY_LIST     == [kind |-> "json", isdict |-> FALSE, data |-> <<>>]
BODY_NO_ID    == [kind |-> "json", isdict |-> TRUE, data |-> [other |-> "x"]]
BODY_EMPTY_ID == [kind |-> "json", isdict |-> TRUE, data |-> [record_id |-> ""]]
BODY_REC      == [kind |-> "json", isdict |-> TRUE, data |-> [record_id |-> REC]]
BODY_UNKNOWN  == [kind |-> "json", isdict |-> TRUE, data |-> [record_id |-> UNKNOWN]]
Bodies == {BODY_EMPTY, BODY_INVALID, BODY_LIST, BODY_NO_ID, BODY_EMPTY_ID,
           BODY_REC, BODY_UNKNOWN}

SECRET == "s3cret"
\* Authorization header values: absent, right, wrong secret, no scheme
AuthHeaders == {None, Some(<<"Bearer ", SECRET>>), Some(<<"Bearer ", "wrong">>),
                Some(<<SECRET>>)}

Requests == [auth : AuthHeaders, body : Bodies]
\* the requests of the store's automation: the right secret, the record's id
AutomationRequests == {[auth |-> Some(<<"Bearer ", SECRET>>), body |-> BODY_REC]}

\* json.loads without the try: a body that is not JSON is not turned into {}
ParseBody_NoExcept(body) ==
  IF body.kind = "json" THEN [isdict |-> body.isdict, data |-> body.data]
  ELSE [isdict |-> body.kind = "empty", data |-> <<>>]

\* lines 282-285: json.loads(body) if body else {}, and {} when it raises
ParseBody(body) ==
  IF body.kind = "json" THEN [isdict |-> body.isdict, data |-> body.data]
  ELSE [isdict |-> TRUE, data |-> <<>>]

\* the check made only when the header is present
Unauthorized_IfPresent(secret, auth) ==
  secret # "" /\ auth # None /\ auth[1] # <<"Bearer ", secret>>

\* lines 288-290: the request is refused
Unauthorized(secret, auth) ==
  secret # "" /\ (IF auth = None THEN <<>> ELSE auth[1]) # <<"Bearer ", secret>>

do_POST(p) ==
  /\ pc[p] = "idle"
  /\ Cardinality({q \in Invocations : pc[q] \in Running}) < MaxInFlight
  /\ \E req \in inbound :
       LET auth == req.auth
           data == ParseBody(req.body)
           rid  == Get(data.data, "record_id")
       IN /\ request' = [request EXCEPT ![p] = req]
          /\ IF Unauthorized(WEBHOOK_SECRET, auth)
             THEN /\ http' = [http EXCEPT ![p] = 401]
                  /\ result' = [result EXCEPT ![p] = Some("Unauthorized")]
                  /\ pc' = [pc EXCEPT ![p] = "done"]
                  /\ UNCHANGED <<record_id, overlapped>>
             ELSE IF ~data.isdict
             THEN \* data.get raises AttributeError: nothing is written
                  /\ pc' = [pc EXCEPT ![p] = "raised"]
                  /\ UNCHANGED <<http, result, record_id, overlapped>>
             ELSE IF ~TruthyStr(rid)
             THEN /\ http' = [http EXCEPT ![p] = 400]
                  /\ result' = [result EXCEPT ![p] = Some([error |-> "Missing record_id"])]
                  /\ pc' = [pc EXCEPT ![p] = "done"]
                  /\ UNCHANGED <<record_id, overlapped>>
             ELSE /\ record_id' = [record_id EXCEPT ![p] = rid[1]]
                  /\ pc' = [pc EXCEPT ![p] = "fetch"]
                  /\ overlapped' = (overlapped \/ \E q \in Invocations \ {p} : pc[q] \in Running)
                  /\ UNCHANGED <<http, result>>
  /\ UNCHANGED <<final_wire, storeVars, posts, envVars, fields, image_urls,
                 scheduled_timestamp, photo_ids, fb_result, calls>>

(***************************************************************************)
(* process_record, lines 174-253.                                          *)
(***************************************************************************)
\* the read without the test of line 178: a missing record is taken as an
\* empty one
Fetch_NoTest(p) ==
  /\ pc[p] = "fetch"
  /\ \E ok \in StoreAnswers("get_fails") :
       LET record == IF ok /\ record_id[p] \in StoreIds
                     THEN Some(store[record_id[p]]) ELSE None
       IN /\ calls' = [calls EXCEPT ![p] = Append(@,
                         AirtableCall("GET", <<"Contents", record_id[p]>>, <<>>,
                                      record # None))]
          /\ fields' = [fields EXCEPT ![p] = IF record = None THEN Some(<<>>) ELSE record]
          /\ pc' = [pc EXCEPT ![p] = "guard"]
  /\ UNCHANGED <<final_wire, storeVars, posts, envVars, request, record_id, image_urls,
                 scheduled_timestamp, photo_ids, fb_result, result, http, overlapped>>

\* lines 176-179: read the record
Fetch(p) ==
  /\ pc[p] = "fetch"
  /\ \E ok \in StoreAnswers("get_fails") :
       LET record == IF ok /\ record_id[p] \in StoreIds
                     THEN Some(store[record_id[p]]) ELSE None
       IN /\ calls' = [calls EXCEPT ![p] = Append(@,
                         AirtableCall("GET", <<"Contents", record_id[p]>>, <<>>,
                                      record # None))]
          /\ IF record = None
             THEN /\ result' = [result EXCEPT ![p] = Some([error |-> "Record not found"])]
                  /\ pc' = [pc EXCEPT ![p] = "respond"]
                  /\ UNCHANGED fields
             ELSE /\ fields' = [fields EXCEPT ![p] = record]
                  /\ pc' = [pc EXCEPT ![p] = "guard"]
                  /\ UNCHANGED result
  /\ UNCHANGED <<final_wire, storeVars, posts, envVars, request, record_id, image_urls,
                 scheduled_timestamp, photo_ids, fb_result, http, overlapped>>

\* lines 181-198: the idempotency guard
Guard(p) ==
  /\ pc[p] = "guard"
  /\ LET skip == SkipResult(fields[p][1]) IN
     IF skip # None
     THEN /\ result' = [result EXCEPT ![p] = skip]
          /\ pc' = [pc EXCEPT ![p] = "respond"]
     ELSE /\ pc' = [pc EXCEPT ![p] = "images"]
          /\ UNCHANGED result
  /\ UNCHANGED <<final_wire, storeVars, posts, envVars, request, record_id, fields,
                 image_urls, scheduled_timestamp, photo_ids, fb_result, http,
                 calls, overlapped>>

\* update_airtable_status, lines 160-171: the PATCH and what it does to the store
Patch(p, patch, ok) ==
  /\ calls' = [calls EXCEPT ![p] = Append(@,
                 AirtableCall("PATCH", <<"Contents", record_id[p]>>, patch, ok))]
  /\ store' = IF ok THEN [store EXCEPT ![record_id[p]] = ApplyPatch(@, patch)]
              ELSE store

\* lines 200-215: collect the attachment urls; no image, no publish
CollectImages(p) ==
  /\ pc[p] = "images"
  /\ LET urls == CollectUrls(GetOr(fields[p][1], "attachments", <<>>)) IN
     /\ image_urls' = [image_urls EXCEPT ![p] = urls]
     /\ IF urls = <<>>
        THEN /\ \E ok \in StoreAnswers("patch_fails") :
                  Patch(p, StatusFields(ST_FAILED, None, Some(REASON_NO_IMAGES)), ok)
             /\ result' = [result EXCEPT ![p] = Some([error |-> "No images available"])]
             /\ pc' = [pc EXCEPT ![p] = "respond"]
        ELSE /\ pc' = [pc EXCEPT ![p] = "schedule"]
             /\ UNCHANGED <<store, calls, result>>
  /\ UNCHANGED <<final_wire, log, posts, envVars, request, record_id, fields,
                 scheduled_timestamp, photo_ids, fb_result, http, overlapped>>

\* lines 217-253: decide between a scheduled and an immediate publish
Schedule(p) ==
  /\ pc[p] = "schedule"
  /\ scheduled_timestamp' = [scheduled_timestamp EXCEPT ![p] =
        ResolveSchedule(Get(fields[p][1], "scheduled"), clock)]
  /\ pc' = [pc EXCEPT ![p] = "dispatch"]
  /\ UNCHANGED <<final_wire, storeVars, posts, envVars, request, record_id, fields,
                 image_urls, photo_ids, fb_result, result, http, calls,
                 overlapped>>

(***************************************************************************)
(* publish_to_facebook, lines 86-141, entered from line 258.               *)
(***************************************************************************)
Content(p)  == GetOr(fields[p][1], "content", "")
Platform(p) == GetOr(fields[p][1], "platform", "Facebook")

\* a final call that the platform answers with an id has created a post
PostCreated(p, data) ==
  [id |-> NewId(p), record_id |-> record_id[p], by |-> p,
   scheduled |-> "scheduled_publish_time" \in DOMAIN data]

\* lines 255-258: only a record for Facebook is dispatched
Dispatch(p) ==
  /\ pc[p] = "dispatch"
  /\ IF WantsFacebook(Platform(p))
     THEN /\ pc' = [pc EXCEPT ![p] = "publish"]
          /\ UNCHANGED result
     ELSE /\ result' = [result EXCEPT ![p] = Some([record_id |-> record_id[p]])]
          /\ pc' = [pc EXCEPT ![p] = "respond"]
  /\ UNCHANGED <<final_wire, storeVars, posts, envVars, request, record_id, fields,
                 image_urls, scheduled_timestamp, photo_ids, fb_result, http,
                 calls, overlapped>>

\* lines 88-92 and 104-106: without page id or token nothing is sent
PublishBegin(p) ==
  /\ pc[p] = "publish"
  /\ IF ~META_CONFIGURED
     THEN /\ fb_result' = [fb_result EXCEPT ![p] =
                Some([success |-> FALSE,
                      error |-> "Missing META_PAGE_ID or META_PAGE_TOKEN"])]
          /\ pc' = [pc EXCEPT ![p] = "writeback"]
          /\ UNCHANGED photo_ids
     ELSE /\ pc' = [pc EXCEPT ![p] =
                IF Len(image_urls[p]) = 1 THEN "single" ELSE "upload"]
          /\ photo_ids' = [photo_ids EXCEPT ![p] = <<>>]
          /\ UNCHANGED fb_result
  /\ UNCHANGED <<final_wire, storeVars, posts, envVars, request, record_id, fields,
                 image_urls, scheduled_timestamp, result, http, calls,
                 overlapped>>

\* lines 92-102 and 128-141: one image, one upload with the caption
SinglePhoto(p) ==
  /\ pc[p] = "single"
  /\ \E wire \in network \cap WireOutcomes :
       LET data   == SinglePhotoData(Content(p), image_urls[p], scheduled_timestamp[p])
           answer == meta_request(wire, NewId(p))
       IN /\ calls' = [calls EXCEPT ![p] = Append(@, MetaCall("photos", data))]
          /\ posts' = IF wire = "ok" THEN Append(posts, PostCreated(p, data)) ELSE posts
          /\ fb_result' = [fb_result EXCEPT ![p] = Some(PublishResult(answer))]
          /\ final_wire' = [final_wire EXCEPT ![p] = Some(wire)]
  /\ pc' = [pc EXCEPT ![p] = "writeback"]
  /\ UNCHANGED <<storeVars, envVars, request, localVarsExceptFb, http, overlapped>>

\* the uploads made so far in this dispatch
Uploaded(p) ==
  Len(SelectSeq(calls[p], LAMBDA c : c.api = "meta" /\ c.endpoint = "photos"))

\* lines 106-116: one turn of the upload loop, and the loop's exit
UploadPhoto(p) ==
  /\ pc[p] = "upload"
  /\ \E wire \in network \cap WireOutcomes :
       LET todo   == Capped(image_urls[p])
           k      == Uploaded(p) + 1
           answer == meta_request(wire, NewId(p))
           ids    == IF answer # None /\ "id" \in DOMAIN answer[1]
                     THEN Append(photo_ids[p], [media_fbid |-> answer[1].id])
                     ELSE photo_ids[p]
       IN /\ calls' = [calls EXCEPT ![p] = Append(@, MetaCall("photos", UploadData(todo[k])))]
          /\ photo_ids' = [photo_ids EXCEPT ![p] = ids]
          /\ IF answer = None
             THEN \* the exception leaves the loop: line 140
                  /\ fb_result' = [fb_result EXCEPT ![p] = Some(PublishResult(None))]
                  /\ pc' = [pc EXCEPT ![p] = "writeback"]
             ELSE IF k < Len(todo)
             THEN /\ UNCHANGED <<fb_result, pc>>
             ELSE IF ids = <<>>
             THEN /\ fb_result' = [fb_result EXCEPT ![p] =
                        Some([success |-> FALSE, error |-> "Failed to upload images"])]
                  /\ pc' = [pc EXCEPT ![p] = "writeback"]
             ELSE /\ pc' = [pc EXCEPT ![p] = "feed"]
                  /\ UNCHANGED fb_result
  /\ UNCHANGED <<final_wire, storeVars, posts, envVars, request, record_id, fields,
                 image_urls, scheduled_timestamp, result, http, overlapped>>

\* lines 118-126 and 128-141: the combined post
FeedPost(p) ==
  /\ pc[p] = "feed"
  /\ \E wire \in network \cap WireOutcomes :
       LET data   == FeedData(Content(p), photo_ids[p], scheduled_timestamp[p])
           answer == meta_request(wire, NewId(p))
       IN /\ calls' = [calls EXCEPT ![p] = Append(@, MetaCall("feed", data))]
          /\ posts' = IF wire = "ok" THEN Append(posts, PostCreated(p, data)) ELSE posts
          /\ fb_result' = [fb_result EXCEPT ![p] = Some(PublishResult(answer))]
          /\ final_wire' = [final_wire EXCEPT ![p] = Some(wire)]
  /\ pc' = [pc EXCEPT ![p] = "writeback"]
  /\ UNCHANGED <<storeVars, envVars, request, localVarsExceptFb, http, overlapped>>

(***************************************************************************)
(* process_record, lines 260-271: write-back, and do_POST's answer.        *)
(***************************************************************************)
\* lines 262-265 and 268: the status patch
UpdateStatus(p) ==
  /\ pc[p] = "writeback"
  /\ LET r == fb_result[p][1]
         patch == IF r.success
                  THEN StatusFields(SuccessStatus(scheduled_timestamp[p]),
                                    Get(r, "post_id"), None)
                  ELSE StatusFields(ST_FAILED, None, Get(r, "error"))
     IN \E ok \in StoreAnswers("patch_fails") : Patch(p, patch, ok)
  /\ pc' = [pc EXCEPT ![p] = "log"]
  /\ UNCHANGED <<log, posts, envVars, request, localVars, http, overlapped>>

\* lines 266, 269 and 271: the audit log entry
LogEntry(p) ==
  /\ pc[p] = "log"
  /\ LET r == fb_result[p][1]
         entry == IF r.success
                  THEN LogFields(record_id[p], "Facebook",
                                 SuccessAction(scheduled_timestamp[p]),
                                 Get(r, "post_id"), None, clock)
                  ELSE LogFields(record_id[p], "Facebook", ACT_PUBLISH,
                                 None, Get(r, "error"), clock)
     IN \E ok \in StoreAnswers("append_fails") :
          /\ calls' = [calls EXCEPT ![p] = Append(@,
                         AirtableCall("POST", <<"Publishing_Log">>, entry, ok))]
          /\ log' = IF ok THEN Append(log, entry) ELSE log
  /\ result' = [result EXCEPT ![p] =
        Some([record_id |-> record_id[p], facebook |-> fb_result[p][1]])]
  /\ pc' = [pc EXCEPT ![p] = "respond"]
  /\ UNCHANGED <<final_wire, store, posts, envVars, request, record_id, fields, image_urls,
                 scheduled_timestamp, photo_ids, fb_result, http, overlapped>>

\* lines 309-313: the answer to a processed request
Respond(p) ==
  /\ pc[p] = "respond"
  /\ http' = [http EXCEPT ![p] = 200]
  /\ pc' = [pc EXCEPT ![p] = "done"]
  /\ UNCHANGED <<storeVars, posts, envVars, request, localVars, calls, overlapped>>

(***************************************************************************)
(* Initial states: the record the store holds, the configuration and the   *)
(* clock are drawn from the sets below.                                    *)
(***************************************************************************)
\* 2026-01-05, as days since 1970-01-01, and 2026-01-05T06:00:00Z
\* (14:00:00 in Taipei) in seconds since the epoch
DAY0 == 20458
NOW0 == DAY0 * 86400 + 6 * 3600

\* all sequences over S of length at most n
RECURSIVE SeqsUpTo(_, _)
SeqsUpTo(S, n) ==
  IF n = 0 THEN {<<>>}
  ELSE LET shorter == SeqsUpTo(S, n - 1) IN
       shorter \cup {Append(q, x) : q \in shorter, x \in S}

\* an attachment without a url, and attachments with one
A_NOURL == [filename |-> "a.png"]
A_CDN   == [url |-> URL_CDN]
A_DRIVE == [url |-> URL_DRIVE]

Statuses == {ST_NONE, ST_PUBLISHED, ST_SCHEDULED, ST_FAILED}
OldPostIds == {None, Some("old_post")}

\* stored scheduled datetimes around the minimum lead seen from NOW0
\* (14:00:00 Taipei): naive and 'Z' forms, with and without milliseconds
NearNaive  == DateTimeStr(DAY0, 14, 14, 59, <<>>)
ExactNaive == DateTimeStr(DAY0, 14, 15, 0, <<>>)
LateNaive  == DateTimeStr(DAY0 + 1, 3, 0, 0, <<".000">>)
NearZ      == DateTimeStr(DAY0, 6, 14, 59, <<"Z">>)
ExactZ     == DateTimeStr(DAY0, 6, 15, 0, <<".000", "Z">>)
\* 14:15Z is far enough only if read as UTC, 06:15 naive only if misread so
LateZ      == DateTimeStr(DAY0, 14, 15, 0, <<"Z">>)
PastNaive  == DateTimeStr(DAY0, 6, 15, 0, <<>>)
\* strings strptime refuses
MillisZ    == DateTimeStr(DAY0 + 1, 3, 0, 0, <<".123", "Z">>)
OffsetForm == DateTimeStr(DAY0 + 1, 3, 0, 0, <<"+08:00">>)

SchedulesAll == {None} \cup {Some(d) : d \in
                  {NearNaive, ExactNaive, LateNaive, NearZ, ExactZ, LateZ,
                   PastNaive, MillisZ, OffsetForm, NotADate}}

\* a record of the Contents table; Airtable leaves empty fields out
Record(status, post_id, attachments, platform, scheduled) ==
  [content |-> "hello", confirm |-> TRUE]
    @@ (IF status = "" THEN <<>> ELSE [status |-> status])
    @@ (IF post_id = None THEN <<>> ELSE [FB_Post_ID |-> post_id[1]])
    @@ (IF attachments = <<>> THEN <<>> ELSE [attachments |-> attachments])
    @@ (IF platform = None THEN <<>> ELSE [platform |-> platform[1]])
    @@ (IF scheduled = None THEN <<>> ELSE [scheduled |-> scheduled[1]])

Records(attachLists, platforms, schedules) ==
  {Record(st, po, at, pl, sc) : st \in Statuses, po \in OldPostIds,
     at \in attachLists, pl \in platforms, sc \in schedules}

\* the state before any request: invocations 1..n will arrive
InitWith(n, records, clocks, configured, secrets, requests, wires) ==
  /\ store \in [StoreIds -> records]
  /\ log = <<>>
  /\ posts = <<>>
  /\ clock \in clocks
  /\ META_CONFIGURED \in configured
  /\ WEBHOOK_SECRET \in secrets
  /\ inbound = requests
  /\ network = wires
  /\ pc = [p \in Invocations |-> IF p <= n THEN "idle" ELSE "off"]
  /\ request = [p \in Invocations |-> [auth |-> None, body |-> BODY_EMPTY]]
  /\ record_id = [p \in Invocations |-> ""]
  /\ fields = [p \in Invocations |-> None]
  /\ image_urls = [p \in Invocations |-> <<>>]
  /\ scheduled_timestamp = [p \in Invocations |-> None]
  /\ photo_ids = [p \in Invocations |-> <<>>]
  /\ fb_result = [p \in Invocations |-> None]
  /\ result = [p \in Invocations |-> None]
  /\ final_wire = [p \in Invocations |-> None]
  /\ http = [p \in Invocations |-> 0]
  /\ calls = [p \in Invocations |-> <<>>]
  /\ overlapped = FALSE

\* the webhook under concurrent triggers for one record
\* records an automation fires on: new, retried after a failure, already
\* published, without images, and labelled for another platform
TriggeredRecords ==
  {Record("", None, <<A_CDN>>, Some("Facebook"), None),
   Record(ST_FAILED, None, <<A_CDN, A_CDN>>, Some("Facebook"), Some(ExactZ)),
   Record(ST_PUBLISHED, Some("old_post"), <<A_CDN>>, Some("Facebook"), None),
   Record("", None, <<>>, Some("Facebook"), None),
   Record("", None, <<A_CDN>>, Some("Instagram"), None)}

Init ==
  InitWith(NumInv, TriggeredRecords, {NOW0}, {TRUE}, {SECRET},
           AutomationRequests, {"ok", "error_message", "patch_fails"})

Next ==
  \E p \in Invocations :
    \/ do_POST(p)
    \/ Fetch(p)
    \/ Guard(p)
    \/ CollectImages(p)
    \/ Schedule(p)
    \/ Dispatch(p)
    \/ PublishBegin(p)
    \/ SinglePhoto(p)
    \/ UploadPhoto(p)
    \/ FeedPost(p)
    \/ UpdateStatus(p)
    \/ LogEntry(p)
    \/ Respond(p)

Spec == Init /\ [][Next]_vars

\* one invocation, over every kind of record, clock and configuration
InitOne ==
  InitWith(1,
           Records(SeqsUpTo({A_NOURL, A_CDN}, MaxAttach),
                   {None, Some("Facebook"), Some("FB"), Some("Instagram")},
                   SchedulesAll),
           {NOW0, NOW0 + 1}, BOOLEAN, {"", SECRET}, Requests,
           WireOutcomes \cup StoreFaults)

SpecOne == InitOne /\ [][Next]_vars

(***************************************************************************)
(* publish_to_facebook on its own: called with a caption, one to           *)
(* MAX_IMAGES + ExtraImages image urls of every kind and an optional       *)
(* schedule timestamp.                                                     *)
(***************************************************************************)
\* the k-th image of a list whose kinds rotate from offset first
\* the kinds: the store's CDN; a share link with and without a path after
\* the file id; another host; a direct-download url; another host with a
\* '/file/d/' segment; a Drive folder link; a CDN url that names a share link
ImageUrl(first, k) ==
  LET n == ToString(k)
      kind == (first + k) % 8
  IN
  CASE kind = 0 -> <<"https://", "v5.airtableusercontent.com", "/", "img" \o n>>
    [] kind = 1 -> <<"https://", "drive.google.com", "/file/d/", "FILE" \o n, "/", "view">>
    [] kind = 2 -> <<"https://", "example.com", "/", "pic" \o n>>
    [] kind = 3 -> <<"https://", "drive.google.com", "/file/d/", "FILE" \o n \o "?usp=sharing">>
    [] kind = 4 -> <<"https://", "drive.google.com", "/uc?export=download&id=", "FILE" \o n>>
    [] kind = 5 -> <<"https://", "docs.example.com", "/file/d/", "FILE" \o n, "/", "edit">>
    [] kind = 6 -> <<"https://", "drive.google.com", "/drive/folders/", "DIR" \o n>>
    [] OTHER    -> <<"https://", "v5.airtableusercontent.com", "/", "drive.google.com",
                     "/file/d/", "FILE" \o n, "/", "view">>

ImageLists ==
  {[k \in 1..n |-> ImageUrl(first, k)] :
     n \in 1..(MAX_IMAGES + ExtraImages), first \in 0..7}

InitPublish ==
  /\ InitWith(1, {Record(ST_NONE, None, <<>>, Some("Facebook"), None)},
              {NOW0}, BOOLEAN, {SECRET}, AutomationRequests, WireOutcomes)
  /\ pc[1] = "idle"

\* line 86: the call, with its arguments
EnterPublish(p) ==
  /\ pc[p] = "idle"
  /\ \E urls \in ImageLists, ts \in {None, Some(NOW0 + 3600)} :
       /\ image_urls' = [image_urls EXCEPT ![p] = urls]
       /\ scheduled_timestamp' = [scheduled_timestamp EXCEPT ![p] = ts]
  /\ record_id' = [record_id EXCEPT ![p] = REC]
  /\ fields' = [fields EXCEPT ![p] = Some(store[REC])]
  /\ pc' = [pc EXCEPT ![p] = "publish"]
  /\ UNCHANGED <<storeVars, posts, envVars, request, photo_ids, fb_result,
                 result, final_wire, http, calls, overlapped>>

NextPublish ==
  \E p \in Invocations :
    \/ EnterPublish(p)
    \/ PublishBegin(p)
    \/ SinglePhoto(p)
    \/ UploadPhoto(p)
    \/ FeedPost(p)

SpecPublish == InitPublish /\ [][NextPublish]_vars

(***************************************************************************)
(* Properties.                                                             *)
(***************************************************************************)
\* the calls of invocation p to the platform, and its writes to the store
MetaCalls(p)   == SelectSeq(calls[p], LAMBDA c : c.api = "meta")
StoreWrites(p) == SelectSeq(calls[p], LAMBDA c : c.api = "airtable" /\ c.method # "GET")
GetCall(p)     == AirtableCall("GET", <<"Contents", record_id[p]>>, <<>>, TRUE)

\* the fetched record is already published or scheduled, or holds a post id
AlreadyPosted(f) ==
  \/ ("status" \in DOMAIN f /\ f.status \in {ST_PUBLISHED, ST_SCHEDULED})
  \/ ("FB_Post_ID" \in DOMAIN f /\ f.FB_Post_ID # "")

\* the fetched record has no attachment with a url
NoImageUrl(f) ==
  "attachments" \in DOMAIN f =>
     \A k \in 1..Len(f.attachments) : "url" \notin DOMAIN f.attachments[k]

\* C1: an invocation that fetched a record already published or scheduled, or
\* holding a post id, leaves the guard only to answer with a skipped result;
\* it has made no call but the read (no platform call, no patch, no log
\* append), and the store, the log and the platform are as they were.
C1_SkipHasNoSideEffects ==
  \A p \in Invocations :
    (fields[p] # None /\ AlreadyPosted(fields[p][1])) =>
       /\ pc[p] \in {"guard", "respond", "done"}
       /\ pc[p] # "guard" =>
            /\ result[p] # None
            /\ "skipped" \in DOMAIN result[p][1]
            /\ result[p][1].skipped
            /\ calls[p] = <<GetCall(p)>>
            /\ store[record_id[p]] = fields[p][1]
            /\ log = <<>>
            /\ posts = <<>>

\* C1 witness: a failed record that holds a post id was skipped and answered
C1_Witness ==
  \E p \in Invocations :
    /\ pc[p] = "done"
    /\ http[p] = 200
    /\ fields[p] # None
    /\ "status" \in DOMAIN fields[p][1]
    /\ fields[p][1].status = ST_FAILED
    /\ "FB_Post_ID" \in DOMAIN fields[p][1]
    /\ "attachments" \in DOMAIN fields[p][1]
    /\ result[p][1].skipped

\* the patch that marks a record without images as failed
NoImagesPatch == [status |-> ST_FAILED, confirm |-> FALSE, reject |-> REASON_NO_IMAGES]

\* C3: an invocation whose record passes the guard and has no attachment url
\* goes from the guard to its answer through one PATCH that sets the status
\* 'failed' with the reason 'no images available'; it answers with an error
\* and makes no platform call.  When the store applies the patch the record
\* is failed with that reason.
C3_NoImagesFails ==
  \A p \in Invocations :
    (fields[p] # None /\ ~AlreadyPosted(fields[p][1]) /\ NoImageUrl(fields[p][1])) =>
       /\ pc[p] \in {"guard", "images", "respond", "done"}
       /\ pc[p] \in {"respond", "done"} =>
            /\ Len(calls[p]) = 2
            /\ calls[p][1] = GetCall(p)
            /\ calls[p][2].api = "airtable"
            /\ calls[p][2].method = "PATCH"
            /\ calls[p][2].endpoint = <<"Contents", record_id[p]>>
            /\ calls[p][2].data = NoImagesPatch
            /\ result[p] = Some([error |-> "No images available"])
            /\ posts = <<>>
            /\ calls[p][2].ok =>
                 /\ store[record_id[p]].status = ST_FAILED
                 /\ store[record_id[p]].reject = REASON_NO_IMAGES

\* C3 witness: a record whose attachments all lack a url ended failed
C3_Witness ==
  \E p \in Invocations :
    /\ pc[p] = "done"
    /\ fields[p] # None
    /\ "attachments" \in DOMAIN fields[p][1]
    /\ Len(fields[p][1].attachments) = 2
    /\ NoImageUrl(fields[p][1])
    /\ Len(calls[p]) = 2
    /\ calls[p][2].ok
    /\ store[record_id[p]].status = ST_FAILED
    /\ http[p] = 200

\* the posts the platform holds for record r
PostsOf(r) == SelectSeq(posts, LAMBDA po : po.record_id = r)

\* a status patch that reported a successful publish and that the store did
\* not apply
SuccessPatchLost ==
  \E p \in Invocations : \E k \in 1..Len(calls[p]) :
    /\ calls[p][k].api = "airtable"
    /\ calls[p][k].method = "PATCH"
    /\ calls[p][k].data.status \in {ST_PUBLISHED, ST_SCHEDULED}
    /\ ~calls[p][k].ok

IsFinalCall(c) ==
  c.api = "meta" /\ (c.endpoint = "feed" \/ "caption" \in DOMAIN c.data)
FinalCalls(p) == SelectSeq(calls[p], IsFinalCall)

\* the stored datetime as the spec reads it: a seconds-precision ISO string,
\* naive or 'Z'-suffixed, with or without '.000'
TailOf(dt) == SelectSeq(dt.tail, LAMBDA t : t # ".000")
Parsable(dt) == dt.wellformed /\ TailOf(dt) \in {<<>>, <<"Z">>}
WallClock(dt) == dt.day * 86400 + dt.hh * 3600 + dt.mm * 60 + dt.ss
\* the instant meant: UTC for a 'Z' string, UTC+8 wall-clock time otherwise
IntendedInstant(dt) ==
  IF TailOf(dt) = <<"Z">> THEN WallClock(dt) ELSE WallClock(dt) - 8 * 3600

\* the invocation has resolved its schedule
PassedSchedule(p) ==
  \/ pc[p] \in {"dispatch", "publish", "single", "upload", "feed", "writeback", "log"}
  \/ pc[p] \in {"respond", "done"} /\ image_urls[p] # <<>>

\* C4: for a parsable scheduled datetime T and the current time N: if T is
\* less than 15 minutes after N, the final post call carries neither
\* scheduled_publish_time nor published=false, and a status written after a
\* successful publish is 'published'; if T is 15 minutes or more after N
\* (exactly 15 included), the final post call carries T's timestamp and
\* published=false.
C4_MinimumLead ==
  \A p \in Invocations :
    (fields[p] # None /\ "scheduled" \in DOMAIN fields[p][1]
       /\ Parsable(fields[p][1].scheduled)) =>
      LET T == IntendedInstant(fields[p][1].scheduled)
          N == clock
      IN /\ \A k \in 1..Len(FinalCalls(p)) :
              LET d == FinalCalls(p)[k].data IN
              IF T < N + 15 * 60
              THEN "scheduled_publish_time" \notin DOMAIN d /\ "published" \notin DOMAIN d
              ELSE /\ "scheduled_publish_time" \in DOMAIN d
                   /\ d.scheduled_publish_time = T
                   /\ "published" \in DOMAIN d
                   /\ d.published = "false"
         /\ T < N + 15 * 60 =>
              \A k \in 1..Len(StoreWrites(p)) :
                 StoreWrites(p)[k].method = "PATCH" =>
                    StoreWrites(p)[k].data.status \in {ST_PUBLISHED, ST_FAILED}

\* C4 witness: a schedule exactly 15 minutes ahead was kept and sent, and the
\* record written back as scheduled
C4_Witness ==
  \E p \in Invocations :
    /\ pc[p] = "done"
    /\ clock = NOW0
    /\ fields[p] # None
    /\ "scheduled" \in DOMAIN fields[p][1]
    /\ fields[p][1].scheduled = ExactNaive
    /\ Len(FinalCalls(p)) = 1
    /\ "scheduled_publish_time" \in DOMAIN FinalCalls(p)[1].data
    /\ FinalCalls(p)[1].data.scheduled_publish_time = NOW0 + 900
    /\ fb_result[p][1].success

\* C5: once an invocation has resolved a parsable schedule at least 15 minutes
\* ahead, its schedule timestamp is the UTC instant meant (wall-clock seconds
\* minus 8 hours for a naive string, the UTC instant itself for a 'Z' string),
\* and that is the timestamp every scheduling call to the platform carries.
C5_TimestampIsUtcInstant ==
  \A p \in Invocations :
    (PassedSchedule(p) /\ "scheduled" \in DOMAIN fields[p][1]
       /\ Parsable(fields[p][1].scheduled)
       /\ IntendedInstant(fields[p][1].scheduled) >= clock + 15 * 60) =>
      /\ scheduled_timestamp[p] = Some(IntendedInstant(fields[p][1].scheduled))
      /\ \A k \in 1..Len(MetaCalls(p)) :
           "scheduled_publish_time" \in DOMAIN MetaCalls(p)[k].data =>
              MetaCalls(p)[k].data.scheduled_publish_time
                 = IntendedInstant(fields[p][1].scheduled)

\* C5 witness: 03:00 of the next day in Taipei was sent as 19:00 UTC of this day
C5_Witness ==
  \E p \in Invocations :
    /\ PassedSchedule(p)
    /\ "scheduled" \in DOMAIN fields[p][1]
    /\ fields[p][1].scheduled = LateNaive
    /\ Len(FinalCalls(p)) = 1
    /\ "scheduled_publish_time" \in DOMAIN FinalCalls(p)[1].data
    /\ FinalCalls(p)[1].data.scheduled_publish_time = DAY0 * 86400 + 19 * 3600

\* the identifier the platform returned for the k-th call of invocation p
ReturnedId(p, k) == "id_" \o ToString(p) \o "_" \o ToString(k)

\* C6: with a page id and token configured, a dispatch that has returned made,
\* for exactly one image, exactly one platform call, a photo upload carrying
\* the caption, and no feed call; for n images (2 <= n <= 10) whose uploads
\* all returned an identifier, n photo uploads, each flagged unpublished and
\* without caption, in the order of the images, followed by exactly one feed
\* call whose attached media are the n returned identifiers in upload order.
\* At no time does a feed call precede an upload.
C6_CallPattern ==
  \A p \in Invocations :
    LET n == Len(image_urls[p]) IN
    /\ \A k \in 1..Len(calls[p]) :
         (calls[p][k].api = "meta" /\ calls[p][k].endpoint = "feed") =>
            k = Len(calls[p]) /\ k > 1
    /\ (META_CONFIGURED /\ pc[p] = "writeback" /\ n = 1) =>
         /\ Len(calls[p]) = 1
         /\ calls[p][1].api = "meta"
         /\ calls[p][1].endpoint = "photos"
         /\ "caption" \in DOMAIN calls[p][1].data
         /\ calls[p][1].data.caption = fields[p][1].content
         /\ calls[p][1].data.url = get_image_url(image_urls[p][1])
    /\ (META_CONFIGURED /\ pc[p] = "writeback" /\ n >= 2 /\ n <= 10
          /\ Len(photo_ids[p]) = n) =>
         /\ Len(calls[p]) = n + 1
         /\ \A k \in 1..n :
              /\ calls[p][k].api = "meta"
              /\ calls[p][k].endpoint = "photos"
              /\ DOMAIN calls[p][k].data = {"url", "published"}
              /\ calls[p][k].data.published = "false"
              /\ calls[p][k].data.url = get_image_url(image_urls[p][k])
         /\ calls[p][n + 1].api = "meta"
         /\ calls[p][n + 1].endpoint = "feed"
         /\ calls[p][n + 1].data.message = fields[p][1].content
         /\ calls[p][n + 1].data.attached_media
              = [k \in 1..n |-> [media_fbid |-> ReturnedId(p, k)]]

\* C6 witness: three images, three uploads that returned an identifier, and
\* the feed call after them
C6_Witness ==
  \E p \in Invocations :
    /\ pc[p] = "writeback"
    /\ Len(image_urls[p]) = 3
    /\ Len(photo_ids[p]) = 3
    /\ Len(calls[p]) = 4
    /\ calls[p][4].endpoint = "feed"
    /\ Len(calls[p][4].data.attached_media) = 3

\* the texts publish_to_facebook reports when the platform gave no message
GenericTexts == {StrOf(<<>>), TRANSPORT_MSG, JSON_MSG}

\* C7: when the final platform call's answer has no 'id', the publish result
\* is a failure whose error text is the platform's reported message, or a
\* generic text when there is no message or the transport failed; a result
\* is a success only when the final call returned an identifier, which is
\* the result's post identifier.
C7_NoIdIsFailure ==
  \A p \in Invocations :
    /\ final_wire[p] # None =>
         /\ fb_result[p] # None
         /\ final_wire[p][1] # "ok" =>
              /\ ~fb_result[p][1].success
              /\ "post_id" \notin DOMAIN fb_result[p][1]
              /\ IF final_wire[p][1] = "error_message"
                 THEN fb_result[p][1].error = PLATFORM_MSG
                 ELSE fb_result[p][1].error \in GenericTexts
    /\ (fb_result[p] # None /\ fb_result[p][1].success) =>
         /\ final_wire[p] = Some("ok")
         /\ fb_result[p][1].post_id = ReturnedId(p, Len(calls[p]))
         /\ \E k \in 1..Len(posts) :
              posts[k].by = p /\ posts[k].id = fb_result[p][1].post_id

\* C7 witness: the feed call of a multi-image publish was refused with the
\* platform's message
C7_Witness ==
  \E p \in Invocations :
    /\ final_wire[p] = Some("error_message")
    /\ Len(calls[p]) > 2
    /\ fb_result[p][1].error = PLATFORM_MSG

\* the request of p carries the configured secret as 'Bearer <secret>'
BearsSecret(p) == request[p].auth = Some(<<"Bearer ", WEBHOOK_SECRET>>)

BodiesWithoutId == {BODY_NO_ID, BODY_EMPTY_ID, BODY_EMPTY, BODY_INVALID}
BodiesWithId    == {BODY_REC, BODY_UNKNOWN}

\* the request of p passes the bearer check, or there is none
Authorized(p) == WEBHOOK_SECRET = "" \/ BearsSecret(p)

StatusPatch(p) ==
  LET ps == SelectSeq(calls[p], LAMBDA c : c.api = "airtable" /\ c.method = "PATCH")
  IN ps[Len(ps)]

\* C10: after a successful dispatch the status patch is 'scheduled' exactly
\* when the final post call carried a schedule timestamp and 'published'
\* otherwise; it stores the post identifier the platform returned and clears
\* the confirm checkbox.  After a failed dispatch the patch sets 'failed' with
\* the error reason and stores no post identifier.  A patch the store applies
\* shows in the record.
C10_WriteBack ==
  \A p \in Invocations :
    (fb_result[p] # None /\ pc[p] \in {"log", "respond", "done"}) =>
      LET patch == StatusPatch(p)
          r == fb_result[p][1]
          sent == /\ FinalCalls(p) # <<>>
                  /\ "scheduled_publish_time" \in DOMAIN FinalCalls(p)[1].data
      IN /\ patch.endpoint = <<"Contents", record_id[p]>>
         /\ patch.data.confirm = FALSE
         /\ r.success =>
              /\ patch.data.status = IF sent THEN ST_SCHEDULED ELSE ST_PUBLISHED
              /\ "FB_Post_ID" \in DOMAIN patch.data
              /\ patch.data.FB_Post_ID = ReturnedId(p, Len(MetaCalls(p)) + 1)
              /\ patch.data.FB_Post_ID = posts[Len(posts)].id
              /\ "reject" \notin DOMAIN patch.data
         /\ ~r.success =>
              /\ patch.data.status = ST_FAILED
              /\ "reject" \in DOMAIN patch.data
              /\ patch.data.reject = r.error
              /\ "FB_Post_ID" \notin DOMAIN patch.data
         /\ patch.ok =>
              /\ store[record_id[p]].status = patch.data.status
              /\ store[record_id[p]].confirm = FALSE
              /\ r.success => store[record_id[p]].FB_Post_ID = patch.data.FB_Post_ID
              /\ ~r.success => store[record_id[p]].reject = r.error

\* C10 witness: a scheduled multi-image post was written back as 'scheduled'
\* with its post identifier
C10_Witness ==
  \E p \in Invocations :
    /\ pc[p] = "done"
    /\ fb_result[p] # None
    /\ fb_result[p][1].success
    /\ Len(MetaCalls(p)) = 3
    /\ StatusPatch(p).ok
    /\ store[REC].status = ST_SCHEDULED
    /\ store[REC].FB_Post_ID = fb_result[p][1].post_id

\* the appends of invocation p to the audit log, and its status patches
LogCalls(p) ==
  SelectSeq(calls[p], LAMBDA c : c.api = "airtable" /\ c.method = "POST"
                                  /\ c.endpoint = <<"Publishing_Log">>)
StatusPatches(p) ==
  SelectSeq(calls[p], LAMBDA c : c.api = "airtable" /\ c.method = "PATCH")
\* the entries of the audit log that refer to record r
LogEntriesOf(r) == SelectSeq(log, LAMBDA e : e.content = <<r>>)

\* C11 as claimed: an answered invocation that patched the record's status
\* (the failure for a record without images included) has left exactly one
\* entry for the record in the audit log.
C11_EveryStatusPatchLogged ==
  \A p \in Invocations :
    (pc[p] = "done" /\ StatusPatches(p) # <<>>) =>
       Len(LogEntriesOf(record_id[p])) = 1

\* C11 as amended: an invocation that patched the status after a publish
\* dispatch has made exactly one append to the audit log once it answers: the
\* entry names the record, the platform 'Facebook', the action (schedule for a
\* 'scheduled' patch, publish otherwise) and the post identifier of a success
\* or the error of a failure; it is in the log exactly when the store accepted
\* the append.  The failure patch for a record without images is followed by
\* no append, and no invocation appends without a status patch.
C11_DispatchOutcomeLogged ==
  \A p \in Invocations :
    /\ Len(LogCalls(p)) <= Len(StatusPatches(p))
    /\ Len(StatusPatches(p)) <= 1
    /\ (fb_result[p] = None /\ StatusPatches(p) # <<>>) =>
         /\ StatusPatches(p)[1].data = NoImagesPatch
         /\ LogCalls(p) = <<>>
         /\ log = <<>>
    /\ (fb_result[p] # None /\ pc[p] \in {"respond", "done"}) =>
         LET r == fb_result[p][1]
             patch == StatusPatches(p)[1].data
         IN /\ Len(StatusPatches(p)) = 1
            /\ Len(LogCalls(p)) = 1
            /\ LET e == LogCalls(p)[1].data IN
               /\ e.content = <<record_id[p]>>
               /\ e.platform = "Facebook"
               /\ e.action = IF patch.status = ST_SCHEDULED
                             THEN ACT_SCHEDULE ELSE ACT_PUBLISH
               /\ r.success =>
                    /\ "Post_ID" \in DOMAIN e
                    /\ e.Post_ID = r.post_id
                    /\ e.Post_ID = patch.FB_Post_ID
                    /\ "error" \notin DOMAIN e
               /\ ~r.success =>
                    /\ "error" \in DOMAIN e
                    /\ e.error = r.error
                    /\ "Post_ID" \notin DOMAIN e
               /\ log = IF LogCalls(p)[1].ok THEN <<e>> ELSE <<>>

\* C11 witness: a dispatch the platform refused was patched 'failed' and logged
\* with the platform's message
C11_Witness ==
  \E p \in Invocations :
    /\ pc[p] = "done"
    /\ fb_result[p] # None
    /\ ~fb_result[p][1].success
    /\ Len(StatusPatches(p)) = 1
    /\ StatusPatches(p)[1].data.status = ST_FAILED
    /\ Len(log) = 1
    /\ log[1].error = PLATFORM_MSG
    /\ log[1].action = ACT_PUBLISH

\* C12: no exception escapes do_POST: whatever the request body, the fetched
\* record and the outcome of the store and platform calls, an invocation
\* never ends by raising; it returns after writing a response.
C12_NoExceptionEscapes ==
  \A p \in Invocations :
    /\ pc[p] # "raised"
    /\ pc[p] = "done" => http[p] \in {200, 400, 401} /\ result[p] # None

\* the invocation fetched a record that passes the guard and has an image url
Publishable(p) ==
  fields[p] # None /\ ~AlreadyPosted(fields[p][1]) /\ ~NoImageUrl(fields[p][1])

\* C13: for a stored scheduled datetime that is neither the naive nor the
\* 'Z'-suffixed seconds-precision form once '.000' is removed, the invocation
\* raises nothing and resolves no schedule timestamp; a record for Facebook
\* is dispatched, no platform call carries scheduling parameters, and after a
\* platform success the status written is 'published' (logged as a publish).
C13_UnparsableMeansImmediate ==
  \A p \in Invocations :
    (Publishable(p) /\ "scheduled" \in DOMAIN fields[p][1]
       /\ ~Parsable(fields[p][1].scheduled)) =>
      /\ pc[p] # "raised"
      /\ scheduled_timestamp[p] = None
      /\ \A k \in 1..Len(MetaCalls(p)) :
           "scheduled_publish_time" \notin DOMAIN MetaCalls(p)[k].data
      /\ \A k \in 1..Len(FinalCalls(p)) :
           "published" \notin DOMAIN FinalCalls(p)[k].data
      /\ (pc[p] \in {"respond", "done"} /\ WantsFacebook(Platform(p))) =>
           /\ fb_result[p] # None
           /\ result[p] = Some([record_id |-> record_id[p],
                                facebook |-> fb_result[p][1]])
           /\ fb_result[p][1].success =>
                /\ StatusPatches(p)[1].data.status = ST_PUBLISHED
                /\ LogCalls(p)[1].data.action = ACT_PUBLISH
           /\ (META_CONFIGURED /\ Len(image_urls[p]) = 1) => Len(MetaCalls(p)) = 1

\* C13 witness: a datetime with a '+08:00' offset was published at once and
\* the record written back as 'published'
C13_Witness ==
  \E p \in Invocations :
    /\ pc[p] = "done"
    /\ fields[p] # None
    /\ "scheduled" \in DOMAIN fields[p][1]
    /\ fields[p][1].scheduled = OffsetForm
    /\ fb_result[p] # None
    /\ fb_result[p][1].success
    /\ StatusPatches(p)[1].ok
    /\ store[REC].status = ST_PUBLISHED

\* a share link: a url on the file-sharing host with a '/file/d/<id>' segment
IsShareLink(u) ==
  Len(u) >= 2 /\ u[2] = "drive.google.com" /\ \E i \in 1..Len(u) : u[i] = "/file/d/"
\* its file id: what stands between the first '/file/d/' and the next '/'
IdIn(u) ==
  LET i == CHOOSE i \in 1..Len(u) :
             u[i] = "/file/d/" /\ \A j \in 1..(i - 1) : u[j] # "/file/d/"
  IN u[i + 1]
DirectDownload(id) == <<"https://", "drive.google.com", "/uc?export=download&id=", id>>

\* C14: the url each photo upload sends for an image is the direct-download
\* url with the image's file id when the image url is a share link with a
\* '/file/d/<id>' segment, and the image url itself otherwise (CDN urls, other
\* hosts, Drive links without the segment, direct-download urls); applying
\* get_image_url to the url sent gives it back unchanged.
C14_ShareLinksRewritten ==
  \A p \in Invocations :
    \A k \in 1..Len(calls[p]) :
      (calls[p][k].api = "meta" /\ calls[p][k].endpoint = "photos") =>
         LET orig == image_urls[p][k]
             sent == calls[p][k].data.url
         IN /\ sent = IF IsShareLink(orig) THEN DirectDownload(IdIn(orig)) ELSE orig
            /\ get_image_url(sent) = sent

\* C14 witness: one dispatch uploaded a rewritten share link and a CDN url
\* that names a share link, left as it was
C14_Witness ==
  \E p \in Invocations : \E j, k \in 1..Len(calls[p]) :
    /\ calls[p][j].endpoint = "photos" /\ calls[p][k].endpoint = "photos"
    /\ IsShareLink(image_urls[p][j])
    /\ Len(image_urls[p][j]) = 6
    /\ calls[p][j].data.url = DirectDownload(image_urls[p][j][4])
    /\ Len(image_urls[p][k]) = 8
    /\ calls[p][k].data.url = image_urls[p][k]

\* the feed calls of invocation p
FeedCalls(p) == SelectSeq(calls[p], LAMBDA c : c.api = "meta" /\ c.endpoint = "feed")

\* C15: a multi-image dispatch that has returned issued, when at least one
\* upload returned an identifier, exactly one feed call, whose attached media
\* are the identifiers of the uploads that succeeded and whose scheduling
\* parameters are those of a full success; when no upload succeeded it issued
\* no feed call and its result is the failure 'Failed to upload images'.
C15_PartialUploadsStillPost ==
  \A p \in Invocations :
    (META_CONFIGURED /\ pc[p] = "writeback" /\ Len(image_urls[p]) >= 2) =>
       IF photo_ids[p] # <<>>
       THEN /\ Len(FeedCalls(p)) = 1
            /\ FeedCalls(p)[1].data.attached_media = photo_ids[p]
            /\ FeedCalls(p)[1].data
                 = FeedData(Content(p), photo_ids[p], scheduled_timestamp[p])
       ELSE /\ FeedCalls(p) = <<>>
            /\ fb_result[p] = Some([success |-> FALSE,
                                    error |-> "Failed to upload images"])

\* the photo uploads of invocation p
PhotoCalls(p) == SelectSeq(calls[p], LAMBDA c : c.api = "meta" /\ c.endpoint = "photos")
Min(a, b) == IF a < b THEN a ELSE b

\* C16: for n image urls one dispatch makes at most min(n, 10) photo uploads
\* and at most one feed call, never more than 11 platform calls; the k-th
\* upload is for the k-th image, so no image is uploaded twice, whatever the
\* answers, and no image after the tenth is uploaded.  A dispatch that
\* reached its feed call has made exactly min(n, 10) uploads.
C16_CallsCappedNoRetry ==
  \A p \in Invocations :
    LET n == Len(image_urls[p]) IN
    /\ Len(PhotoCalls(p)) <= Min(n, 10)
    /\ Len(FeedCalls(p)) <= 1
    /\ Len(MetaCalls(p)) <= 11
    /\ Len(MetaCalls(p)) = Len(PhotoCalls(p)) + Len(FeedCalls(p))
    /\ \A k \in 1..Len(PhotoCalls(p)) :
         PhotoCalls(p)[k].data.url = get_image_url(image_urls[p][k])
    /\ \A j \in 11..n : \A k \in 1..Len(MetaCalls(p)) :
         "url" \in DOMAIN MetaCalls(p)[k].data =>
            MetaCalls(p)[k].data.url # get_image_url(image_urls[p][j])
    /\ (pc[p] = "writeback" /\ FeedCalls(p) # <<>>) =>
         Len(PhotoCalls(p)) = Min(n, 10)

\* C16 witness: with eleven images, ten uploads of which some failed and one
\* feed call
C16_Witness ==
  \E p \in Invocations :
    /\ pc[p] = "writeback"
    /\ Len(image_urls[p]) = 11
    /\ Len(PhotoCalls(p)) = 10
    /\ Len(FeedCalls(p)) = 1
    /\ Len(photo_ids[p]) = 8
    /\ fb_result[p][1].success

\* C17: an invocation whose record read failed or found nothing (an unknown
\* identifier always does) goes straight to its answer: its result is the
\* error 'Record not found', the read is its only call (no platform call, no
\* patch, no log append), and the store, the log and the platform are as they
\* were.
C17_ReadFailureIsNotFound ==
  \A p \in Invocations :
    /\ (calls[p] # <<>> /\ record_id[p] = UNKNOWN) => ~calls[p][1].ok
    /\ (calls[p] # <<>> /\ ~calls[p][1].ok) =>
         /\ pc[p] \in {"respond", "done"}
         /\ result[p] = Some([error |-> "Record not found"])
         /\ calls[p] = <<AirtableCall("GET", <<"Contents", record_id[p]>>, <<>>, FALSE)>>
         /\ fields[p] = None
         /\ fb_result[p] = None
         /\ store[REC].confirm
         /\ log = <<>>
         /\ posts = <<>>
         /\ pc[p] = "done" => http[p] = 200

\* C17 witness: the read of an existing, publishable record failed in
\* transport and the request was answered 'Record not found'
C17_Witness ==
  \E p \in Invocations :
    /\ pc[p] = "done"
    /\ record_id[p] = REC
    /\ ~AlreadyPosted(store[REC])
    /\ ~NoImageUrl(store[REC])
    /\ Len(calls[p]) = 1
    /\ ~calls[p][1].ok
    /\ result[p] = Some([error |-> "Record not found"])

\* every call to the store made so far has succeeded
AllStoreCallsOk ==
  \A p \in Invocations : \A k \in 1..Len(calls[p]) :
    calls[p][k].api = "airtable" => calls[p][k].ok

\* the fetched record is 'failed' and holds no post identifier
FailedWithoutPost(f) ==
  /\ "status" \in DOMAIN f /\ f.status = ST_FAILED
  /\ "FB_Post_ID" \notin DOMAIN f

\* C18: when no two invocations have overlapped and every store call has
\* succeeded: an invocation running after another has finished a successful
\* publish or scheduling (with its write-back) fetches the record as published
\* or scheduled with that post identifier, calls neither the platform nor the
\* store again and answers 'skipped'; an invocation that fetched the record
\* as 'failed' without post identifier is not skipped: it patches a status
\* again and, when the record has an image, calls the platform again.
C18_SequentialAtMostOnce ==
  (~overlapped /\ AllStoreCallsOk) =>
    \A q \in Invocations :
      /\ \A p \in Invocations \ {q} :
           (pc[p] = "done" /\ fb_result[p] # None /\ fb_result[p][1].success
              /\ pc[q] \in Running) =>
             /\ pc[q] \in {"fetch", "guard", "respond"}
             /\ MetaCalls(q) = <<>>
             /\ StoreWrites(q) = <<>>
             /\ fields[q] # None =>
                  /\ AlreadyPosted(fields[q][1])
                  /\ fields[q][1].FB_Post_ID = fb_result[p][1].post_id
             /\ pc[q] = "respond" =>
                  /\ "skipped" \in DOMAIN result[q][1]
                  /\ result[q][1].post_id = Some(fb_result[p][1].post_id)
      /\ (fields[q] # None /\ FailedWithoutPost(fields[q][1])
            /\ pc[q] \in {"respond", "done"}) =>
           /\ "skipped" \notin DOMAIN result[q][1]
           /\ Len(StatusPatches(q)) = 1
           /\ ~NoImageUrl(fields[q][1]) =>
                /\ fb_result[q] # None
                /\ MetaCalls(q) # <<>>

\* C18 witness: a record left 'failed' was published again and scheduled by
\* one invocation, and the next invocation found it scheduled and skipped
C18_Witness ==
  /\ ~overlapped
  /\ AllStoreCallsOk
  /\ \E p, q \in Invocations :
       /\ p # q
       /\ pc[p] = "done" /\ pc[q] = "done"
       /\ FailedWithoutPost(fields[p][1])
       /\ fb_result[p] # None /\ fb_result[p][1].success
       /\ Len(MetaCalls(p)) = 3
       /\ fields[q][1].status = ST_SCHEDULED
       /\ result[q][1].skipped
       /\ calls[q] = <<GetCall(q)>>

\* the kinds of outbound call
IsRead(c)   == c.api = "airtable" /\ c.method = "GET"
IsMeta(c)   == c.api = "meta"
IsPatch(c)  == c.api = "airtable" /\ c.method = "PATCH"
IsAppend(c) == c.api = "airtable" /\ c.method = "POST"

\* the order of the calls of invocation p so far
CallsInOrder(p) ==
  /\ calls[p] # <<>> => IsRead(calls[p][1])
  /\ \A i, j \in 1..Len(calls[p]) :
       i < j =>
         /\ ~IsRead(calls[p][j])
         /\ IsPatch(calls[p][i]) => IsAppend(calls[p][j])
         /\ ~IsAppend(calls[p][i])
  \* a patch claiming a publish follows the platform call that returned the
  \* post identifier it stores
  /\ \A k \in 1..Len(calls[p]) :
       (IsPatch(calls[p][k]) /\ calls[p][k].data.status \in {ST_PUBLISHED, ST_SCHEDULED}) =>
          /\ k > 1
          /\ IsFinalCall(calls[p][k - 1])
          /\ "FB_Post_ID" \in DOMAIN calls[p][k].data
          /\ calls[p][k].data.FB_Post_ID = ReturnedId(p, k - 1)
          /\ \E i \in 1..Len(posts) :
               posts[i].by = p /\ posts[i].id = calls[p][k].data.FB_Post_ID
  \* the 200 response comes last
  /\ pc[p] # "done" => http[p] = 0
  /\ (http[p] = 200 /\ fb_result[p] # None) =>
       /\ IsPatch(calls[p][Len(calls[p]) - 1])
       /\ IsAppend(calls[p][Len(calls[p])])

\* C19: in every invocation the record read is the first call and the only
\* read; every platform call precedes the status patch, the status patch
\* precedes the log append and nothing follows the append; a patch claiming
\* 'published' or 'scheduled' comes right after the platform call that
\* returned the post identifier it stores; no response is written before the
\* calls are done, and once a response is written the invocation makes no
\* further call.
C19_EffectsOrdered ==
  /\ [](\A p \in Invocations : CallsInOrder(p))
  /\ [][\A p \in Invocations :
          http[p] # 0 => (calls'[p] = calls[p] /\ http'[p] = http[p])]_vars

\* C19 witness: read, two uploads, the feed call, the status patch, the log
\* append, and then the 200 response
C19_Witness ==
  \E p \in Invocations :
    /\ http[p] = 200
    /\ Len(calls[p]) = 6
    /\ IsRead(calls[p][1])
    /\ IsMeta(calls[p][2]) /\ IsMeta(calls[p][3]) /\ IsMeta(calls[p][4])
    /\ IsPatch(calls[p][5])
    /\ calls[p][5].data.status = ST_SCHEDULED
    /\ IsAppend(calls[p][6])

\* the record's platform label is one the dispatch takes for Facebook (a
\* record without label counts as 'Facebook')
IsFacebookLabel(f) == "platform" \in DOMAIN f => f.platform \in {"Facebook", "FB"}

\* C20: an invocation whose record passes the guard and has an image but is
\* labelled for another platform makes no call but the read: no platform
\* call, no patch, no log append.  The record is as it was fetched, still
\* without terminal status or post identifier and with its confirm checkbox
\* set, and the result holds the record identifier only; every trigger of the
\* record ends so.
C20_OtherPlatformIsNoOp ==
  \A p \in Invocations :
    (Publishable(p) /\ ~IsFacebookLabel(fields[p][1])) =>
       /\ pc[p] \in {"guard", "images", "schedule", "dispatch", "respond", "done"}
       /\ calls[p] = <<GetCall(p)>>
       /\ fb_result[p] = None
       /\ store[record_id[p]] = fields[p][1]
       /\ ~AlreadyPosted(store[record_id[p]])
       /\ store[record_id[p]].confirm
       /\ log = <<>>
       /\ posts = <<>>
       /\ pc[p] \in {"respond", "done"} =>
            result[p] = Some([record_id |-> record_id[p]])
       /\ pc[p] = "done" => http[p] = 200

\* C20 witness: two triggers, one after the other, of a record labelled
\* 'Instagram' both ended with the record identifier alone
C20_Witness ==
  /\ ~overlapped
  /\ store[REC].platform = "Instagram"
  /\ \E p, q \in Invocations :
       /\ p # q
       /\ pc[p] = "done" /\ pc[q] = "done"
       /\ http[p] = 200 /\ http[q] = 200
       /\ image_urls[p] # <<>> /\ image_urls[q] # <<>>
       /\ result[p] = Some([record_id |-> REC])
       /\ result[q] = Some([record_id |-> REC])

====
